---- MODULE Spec2Model ----
(***************************************************************************)
(* Model of lazydeepcopy.py: DeepcopyBatcher (defer / get / flush and the  *)
(* internal _should_flush_locked / _flush_locked) with the _Handle cells   *)
(* it resolves, run by several threads that share one batcher.             *)
(*                                                                         *)
(* Objects are identified by integers.  Roots are the mutable containers   *)
(* (lists, dicts) the callers pass to defer; their identities are          *)
(* 1..NumRoots and each has a content version that callers may change.     *)
(* The next identity stands for an object copy.deepcopy cannot copy (it    *)
(* raises TypeError, e.g. a threading.Lock), the one after it for an       *)
(* immutable object (an int, a str, a tuple of ints), which copy.deepcopy  *)
(* returns as it is.  Every object allocated by copy.deepcopy gets the     *)
(* next identity above these.                                              *)
(*                                                                         *)
(* Python indices are kept 0-based as values (seen, index_for_queue_pos);  *)
(* TLA+ sequences are 1-based, so a lookup outputs[k] reads position k+1.  *)
(***************************************************************************)
EXTENDS Integers, Sequences, FiniteSets, TLC

NumThreads == 2
MaxHandles == 3
NumRoots == 2
ConsHandles == 2
ConcHandles == 2

DefaultMaxItems == 64

None == 0

Threads == 1..NumThreads

\* The contents a root or a copy can show: as built ({'data': [10, 20]}) and
\* changed ({'data': [10, 20, 30]}).
Contents == {0, 1}
Copyable == 1..NumRoots
BadRoot == NumRoots + 1
Roots == Copyable \cup {BadRoot}

\* An immutable object passed to defer: copy.deepcopy returns the object
\* itself (copy._deepcopy_atomic; a tuple whose items are all unchanged).
Atom == NumRoots + 2
Objects == Roots \cup {Atom}

VARIABLES cfg, queue, pending_bytes, lock, hs, copies, content, th

vars == <<cfg, queue, pending_bytes, lock, hs, copies, content, th>>

(***************************************************************************)
(* DeepcopyBatcher.__init__: the configurations a batcher is built with.   *)
(* max_bytes is the empty set for None and {n} for the integer n.          *)
(***************************************************************************)
Config(mi, mb, c, a) == [max_items |-> mi, max_bytes |-> mb, consistency |-> c, alias |-> a]

Configs ==
    { Config(DefaultMaxItems, {}, "at_access", "preserve"),
      Config(2, {}, "at_access", "preserve"),
      Config(1, {}, "at_access", "preserve"),
      Config(0, {}, "at_access", "preserve"),
      Config(DefaultMaxItems, {0}, "at_access", "preserve"),
      Config(DefaultMaxItems, {1}, "at_access", "preserve"),
      Config(DefaultMaxItems, {-1}, "at_access", "preserve"),
      Config(DefaultMaxItems, {}, "strict", "preserve"),
      Config(DefaultMaxItems, {}, "at_access", "duplicate") }

ConsistencyArgs == {"None", "at_access", "strict"}
AliasArgs == {"None", "preserve", "duplicate"}

(***************************************************************************)
(* _Handle.__init__ : _value = None, _ready = False.  root, alias, cons,   *)
(* dsnap, batch and returned are history fields: the root and the resolved *)
(* policies of the defer call, the root's content when defer was called,   *)
(* the number of the copy.deepcopy invocation that made the value, and     *)
(* whether defer has handed the handle to its caller.                      *)
(***************************************************************************)
\* A handle that is created ready.
NewHandleReady(obj, c, a, snap) ==
    [value |-> None, ready |-> TRUE, root |-> obj, alias |-> a, cons |-> c,
     dsnap |-> snap, batch |-> 0, returned |-> FALSE]

NewHandle(obj, c, a, snap) ==
    [value |-> None, ready |-> FALSE, root |-> obj, alias |-> a, cons |-> c,
     dsnap |-> snap, batch |-> 0, returned |-> FALSE]

(***************************************************************************)
(* A thread: pc is its place in the call it is making ("idle" between two  *)
(* calls), op the call, h the handle the call is about, i and outs the     *)
(* position and the outputs of the fan-out loop, calls the number of       *)
(* copy.deepcopy invocations the call has made and cn the number of the    *)
(* invocation it is in or has made last (0: none).  Between two calls err  *)
(* tells whether the last call raised.  While the call's copy.deepcopy is  *)
(* running, rd is the newest of its copies whose root it is known to have  *)
(* read already (0: none yet).                                             *)
(***************************************************************************)
\* A call that returns normally whether or not it raised.
ReturnedNormally(e) ==
    [pc |-> "idle", op |-> "none", h |-> 0, i |-> 0, outs |-> <<>>, err |-> FALSE, calls |-> 0,
     rd |-> 0, cn |-> 0]

Returned(e) ==
    [pc |-> "idle", op |-> "none", h |-> 0, i |-> 0, outs |-> <<>>, err |-> e, calls |-> 0,
     rd |-> 0, cn |-> 0]

Running(p, o, h, i, outs, n) ==
    [pc |-> p, op |-> o, h |-> h, i |-> i, outs |-> outs, err |-> FALSE, calls |-> n,
     rd |-> 0, cn |-> 0]

Init ==
    /\ cfg \in Configs
    /\ queue = <<>>
    /\ pending_bytes = 0
    /\ lock = [owner |-> 0, count |-> 0]
    /\ hs = <<>>
    /\ copies = <<>>
    /\ content = [r \in Copyable |-> 0]
    /\ th = [t \in Threads |-> Returned(FALSE)]

(***************************************************************************)
(* copy.deepcopy                                                           *)
(***************************************************************************)
\* A copy that shows the root as it was when the batcher was built.
RootStateAtStart(r) == 0

\* The content copy.deepcopy reads from a root: its content at the moment the
\* root is read.
RootState(r) == content[r]

\* The identity of the k-th object (k >= 1) the batcher's copies have allocated.
CopyId(k) == Atom + k

IsCopy(o) == o > Atom /\ o <= Atom + Len(copies)

\* The place of the object o in copies.
CopyIdx(o) == o - Atom

CopyRec(o) == copies[CopyIdx(o)]

\* Number of copy.deepcopy invocations that have not raised so far: the
\* newest one that allocated an object, gave a handle its value or is running.
NCalls ==
    LET made == {copies[k].call : k \in 1..Len(copies)} \cup {hs[h].batch : h \in 1..Len(hs)}
                    \cup {th[t].cn : t \in Threads} \cup {0}
    IN CHOOSE n \in made : \A m \in made : m <= n

\* The first position of inputs that holds the same object as position i
\* (deepcopy's memo is keyed by id()).
FirstPos(inputs, i) == CHOOSE j \in 1..i : inputs[j] = inputs[i] /\ \A k \in 1..(j-1) : inputs[k] # inputs[i]

\* The positions among 1..i of inputs that hold an object copy.deepcopy
\* allocates a copy for.
Allocating(inputs, i) == {j \in 1..i : inputs[j] # Atom}

\* How many distinct objects that get a copy the positions 1..i of inputs hold.
Distinct(inputs, i) == Cardinality({FirstPos(inputs, j) : j \in Allocating(inputs, i)})

\* A copy of the list made by one invocation for each distinct root.
DeepCopyPerRoot(inputs) ==
    IF \E i \in 1..Len(inputs) : inputs[i] = BadRoot
    THEN [ok |-> FALSE, refs |-> <<>>, new |-> <<>>]
    ELSE LET firsts == {FirstPos(inputs, j) : j \in Allocating(inputs, Len(inputs))}
             at(k) == CHOOSE j \in firsts : Distinct(inputs, j) = k
         IN [ok |-> TRUE,
             refs |-> [i \in 1..Len(inputs) |->
                         IF inputs[i] = Atom THEN inputs[i]
                         ELSE CopyId(Len(copies) + Distinct(inputs, FirstPos(inputs, i)))],
             new |-> [k \in 1..Cardinality(firsts) |->
                        [src |-> inputs[at(k)], snap |-> RootState(inputs[at(k)]), call |-> NCalls + k]]]

\* copy.deepcopy(inputs) for a list of roots: it raises when a root cannot be
\* copied; otherwise refs[i] is the identity of the object standing at
\* position i of the returned list: the root itself when it is immutable,
\* else its copy (one new object per distinct root: the memo maps equal
\* identities to one copy), and new lists the objects allocated, in the order
\* of inputs, which is the order in which the roots are read.  The call is
\* not one instant and takes no lock the owners of the roots know of: snap
\* is what each root shows when the call starts, and a write the owner of a
\* root makes while the call runs and before that root is read replaces it
\* (Mutate), so that the roots of one batch may be copied in different states.
DeepCopy(inputs) ==
    IF \E i \in 1..Len(inputs) : inputs[i] = BadRoot
    THEN [ok |-> FALSE, refs |-> <<>>, new |-> <<>>]
    ELSE LET firsts == {FirstPos(inputs, j) : j \in Allocating(inputs, Len(inputs))}
             at(k) == CHOOSE j \in firsts : Distinct(inputs, j) = k
         IN [ok |-> TRUE,
             refs |-> [i \in 1..Len(inputs) |->
                         IF inputs[i] = Atom THEN inputs[i]
                         ELSE CopyId(Len(copies) + Distinct(inputs, FirstPos(inputs, i)))],
             new |-> [k \in 1..Cardinality(firsts) |->
                        [src |-> inputs[at(k)], snap |-> RootState(inputs[at(k)]), call |-> NCalls + 1]]]

(***************************************************************************)
(* DeepcopyBatcher._should_flush_locked                                    *)
(***************************************************************************)
\* The threshold test with > for >=.
ShouldFlushLockedAbove(q) ==
    \/ Len(q) > cfg.max_items
    \/ \E b \in cfg.max_bytes : pending_bytes >= b

\* A threshold test that never asks for a flush.
ShouldFlushLockedNever(q) == FALSE

ShouldFlushLocked(q) ==
    \/ Len(q) >= cfg.max_items
    \/ \E b \in cfg.max_bytes : pending_bytes >= b

(***************************************************************************)
(* DeepcopyBatcher._flush_locked: the inputs list and the fan-out map.     *)
(***************************************************************************)
AllDuplicate(q) == \A k \in 1..Len(q) : q[k].alias = "duplicate"

\* A lookup that answers the first slot whatever the key.
SeenIndexFirstSlot(seen, key) == 0

\* seen[key] for a key already in seen.
SeenIndex(seen, key) == seen[key]

\* A loop that gives every entry a slot of its own, seen before or not.
BuildInputsEverySlot(q, n) ==
    [inputs |-> [k \in 1..n |-> q[k].obj],
     index_for_queue_pos |-> [k \in 1..n |-> k - 1],
     seen |-> <<>>]

\* The loop over the queue, after its first n entries.
RECURSIVE BuildInputs(_, _)
BuildInputs(q, n) ==
    IF n = 0
    THEN [inputs |-> <<>>, index_for_queue_pos |-> <<>>, seen |-> <<>>]
    ELSE LET p == BuildInputs(q, n - 1)
             obj == q[n].obj
         IN IF q[n].alias = "preserve"
            THEN IF obj \in DOMAIN p.seen
                 THEN [p EXCEPT !.index_for_queue_pos = Append(@, SeenIndex(p.seen, obj))]
                 ELSE [inputs |-> Append(p.inputs, obj),
                       index_for_queue_pos |-> Append(p.index_for_queue_pos, Len(p.inputs)),
                       seen |-> [k \in DOMAIN p.seen \cup {obj} |->
                                    IF k = obj THEN Len(p.inputs) ELSE p.seen[k]]]
            ELSE [p EXCEPT !.inputs = Append(@, obj),
                           !.index_for_queue_pos = Append(@, Len(p.inputs))]

\* The list handed to copy.deepcopy.
FlushInputs(q) ==
    IF AllDuplicate(q) THEN [k \in 1..Len(q) |-> q[k].obj] ELSE BuildInputs(q, Len(q)).inputs

\* An index map that sends every queue position to the first output.
SrcIdxFirst(q, k) == 0

\* The position of outputs fanned out to the entry at queue position k (0-based).
SrcIdx(q, k) ==
    IF AllDuplicate(q) THEN k - 1 ELSE BuildInputs(q, Len(q)).index_for_queue_pos[k]

\* A fan-out that hands an entry the value a handle of the same root got
\* from an earlier flush, if there is one.
FanOutCached(q, refs) ==
    [k \in 1..Len(q) |->
        IF \E h \in 1..Len(hs) : hs[h].ready /\ hs[h].root = q[k].obj
        THEN hs[CHOOSE h \in 1..Len(hs) : hs[h].ready /\ hs[h].root = q[k].obj].value
        ELSE refs[SrcIdx(q, k) + 1]]

\* A fan-out that hands the first output to every handle.
FanOutFirst(q, refs) == [k \in 1..Len(q) |-> refs[1]]

\* What the fan-out will assign to the handle of each queue position.
FanOut(q, refs) == [k \in 1..Len(q) |-> refs[SrcIdx(q, k) + 1]]

(***************************************************************************)
(* threading.RLock                                                         *)
(***************************************************************************)
CanAcquire(t) == lock.owner \in {0, t}

\* A flush that takes the lock a second time.
AcquiredTwice(t) == [owner |-> t, count |-> lock.count + 2]

\* A flush that runs without taking the lock.
AcquiredNot(t) == lock

Acquired(t) == [owner |-> t, count |-> lock.count + 1]

\* A with-block that keeps the lock when it is left: only an acquisition made
\* while the lock was already held is undone.
ReleasedNever(l) == IF l.count > 1 THEN [l EXCEPT !.count = @ - 1] ELSE l

Released(l) == IF l.count = 1 THEN [owner |-> 0, count |-> 0] ELSE [l EXCEPT !.count = @ - 1]

(***************************************************************************)
(* DeepcopyBatcher.defer                                                   *)
(***************************************************************************)
\* A defer that ignores its per-call arguments.
ResolveDefault(arg, default) == default

Resolve(arg, default) == IF arg = "None" THEN default ELSE arg

\* A defer that queues every request.
IsStrictNever(consistency) == FALSE

\* A defer that follows the batcher's default whatever the call asks for.
IsStrictByDefault(consistency) == cfg.consistency = "strict"

IsStrict(consistency) == consistency = "strict"


\* with self._lock: thread t, standing at the with-statement (pc = at), takes
\* the lock and enters the block (pc = to).  It cannot while another thread
\* holds the lock.
Lock(t, at, to) ==
    /\ th[t].pc = at
    /\ CanAcquire(t)
    /\ lock' = Acquired(t)
    /\ th' = [th EXCEPT ![t].pc = to]
    /\ UNCHANGED <<cfg, queue, pending_bytes, hs, copies, content>>

\* A flush that empties the queue when its copy fails.
FlushBeginClearing(t, o, h, q) ==
    LET r == DeepCopy(FlushInputs(q))
    IN /\ hs' = hs
       /\ IF r.ok
          THEN /\ queue' = q
               /\ copies' = copies \o r.new
               /\ lock' = lock
               /\ th' = [th EXCEPT ![t] = [Running("fan_value", o, h, 1, FanOut(q, r.refs), 1)
                                             EXCEPT !.cn = NCalls + 1]]
          ELSE /\ queue' = <<>>
               /\ copies' = copies
               /\ lock' = Released(lock)
               /\ th' = [th EXCEPT ![t] = Returned(TRUE)]

\* A flush that, when the copy of the whole batch fails, copies the first
\* entry by itself and resolves it before raising.
FlushBeginPerEntry(t, o, h, q) ==
    LET r == DeepCopy(FlushInputs(q))
        r1 == DeepCopy(<<q[1].obj>>)
    IN /\ queue' = q
       /\ IF r.ok
          THEN /\ hs' = hs
               /\ copies' = copies \o r.new
               /\ lock' = lock
               /\ th' = [th EXCEPT ![t] = [Running("fan_value", o, h, 1, FanOut(q, r.refs), 1)
                                             EXCEPT !.cn = NCalls + 1]]
          ELSE /\ lock' = Released(lock)
               /\ th' = [th EXCEPT ![t] = Returned(TRUE)]
               /\ IF r1.ok
                  THEN /\ copies' = copies \o r1.new
                       /\ hs' = [hs EXCEPT ![q[1].h].value = r1.refs[1], ![q[1].h].ready = TRUE,
                                           ![q[1].h].batch = NCalls + 1]
                  ELSE /\ copies' = copies
                       /\ hs' = hs

\* _flush_locked up to copy.deepcopy(inputs), run by thread t for call o on
\* handle h with the lock held and the queue q.  deepcopy raising leaves the
\* with-block: the lock is released, the queue is left as it is and the call
\* raises.
FlushBegin(t, o, h, q) ==
    LET r == DeepCopy(FlushInputs(q))
    IN /\ queue' = q
       /\ hs' = hs
       /\ IF r.ok
          THEN /\ copies' = copies \o r.new
               /\ lock' = lock
               /\ th' = [th EXCEPT ![t] = [Running("fan_value", o, h, 1, FanOut(q, r.refs), 1)
                                             EXCEPT !.cn = NCalls + 1]]
          ELSE /\ copies' = copies
               /\ lock' = Released(lock)
               /\ th' = [th EXCEPT ![t] = Returned(TRUE)]

\* defer(obj, consistency=c, alias=a) with consistency resolved to "strict":
\* h = _Handle() and the call of copy.deepcopy(obj), outside the lock.  The
\* copy runs until StrictValue, and the owner of obj may write meanwhile.
DeferStrict(t, obj, c, a) ==
    /\ th[t].pc = "idle"
    /\ Len(hs) < MaxHandles
    /\ IsStrict(Resolve(c, cfg.consistency))
    /\ LET r == DeepCopy(<<obj>>)
           h == Len(hs) + 1
           snap == IF obj \in Copyable THEN content[obj] ELSE 0
       IN IF r.ok
          THEN /\ copies' = copies \o r.new
               /\ hs' = Append(hs, NewHandle(obj, "strict", "none", snap))
               /\ th' = [th EXCEPT ![t] = [Running("strict_value", "defer", h, 0, r.refs, 1)
                                             EXCEPT !.cn = NCalls + 1]]
          ELSE /\ UNCHANGED <<copies, hs>>
               /\ th' = [th EXCEPT ![t] = Returned(TRUE)]
    /\ UNCHANGED <<cfg, queue, pending_bytes, lock, content>>

\* h._value = copy.deepcopy(obj): the copy has returned.
StrictValue(t) ==
    /\ th[t].pc = "strict_value"
    /\ hs' = [hs EXCEPT ![th[t].h].value = th[t].outs[1], ![th[t].h].batch = th[t].cn]
    /\ th' = [th EXCEPT ![t].pc = "strict_ready", ![t].outs = <<>>, ![t].rd = 0]
    /\ UNCHANGED <<cfg, queue, pending_bytes, lock, copies, content>>

\* h._ready = True; return h
StrictReady(t) ==
    /\ th[t].pc = "strict_ready"
    /\ hs' = [hs EXCEPT ![th[t].h].ready = TRUE, ![th[t].h].returned = TRUE]
    /\ th' = [th EXCEPT ![t] = Returned(FALSE)]
    /\ UNCHANGED <<cfg, queue, pending_bytes, lock, copies, content>>

\* A defer that keeps the consistency it resolved as the batcher's default.
DeferEnterStoring(t, obj, c, a) ==
    /\ th[t].pc = "idle"
    /\ Len(hs) < MaxHandles
    /\ ~IsStrict(Resolve(c, cfg.consistency))
    /\ LET snap == IF obj \in Copyable THEN content[obj] ELSE 0
       IN hs' = Append(hs, NewHandle(obj, Resolve(c, cfg.consistency), Resolve(a, cfg.alias), snap))
    /\ th' = [th EXCEPT ![t] = Running("defer_lock", "defer", Len(hs) + 1, 0, <<>>, 0)]
    /\ cfg' = [cfg EXCEPT !.consistency = Resolve(c, cfg.consistency)]
    /\ UNCHANGED <<queue, pending_bytes, lock, copies, content>>

\* defer(obj, consistency=c, alias=a) otherwise, up to the with-statement:
\* the policies are resolved and h = _Handle() is made.
DeferEnter(t, obj, c, a) ==
    /\ th[t].pc = "idle"
    /\ Len(hs) < MaxHandles
    /\ ~IsStrict(Resolve(c, cfg.consistency))
    /\ LET snap == IF obj \in Copyable THEN content[obj] ELSE 0
       IN hs' = Append(hs, NewHandle(obj, Resolve(c, cfg.consistency), Resolve(a, cfg.alias), snap))
    /\ th' = [th EXCEPT ![t] = Running("defer_lock", "defer", Len(hs) + 1, 0, <<>>, 0)]
    /\ UNCHANGED <<cfg, queue, pending_bytes, lock, copies, content>>

\* with self._lock: in defer
DeferLock(t) == Lock(t, "defer_lock", "defer_locked")

\* The block of defer, run with the lock held: append the entry and flush if
\* _should_flush_locked says so; without a flush the block is left and the
\* lock released.
DeferQueue(t) ==
    /\ th[t].pc = "defer_locked"
    /\ LET h == th[t].h
           q == Append(queue, [h |-> h, obj |-> hs[h].root, alias |-> hs[h].alias])
       IN IF ShouldFlushLocked(q)
          THEN FlushBegin(t, "defer", h, q)
          ELSE /\ queue' = q
               /\ lock' = Released(lock)
               /\ th' = [th EXCEPT ![t].pc = "defer_return"]
               /\ UNCHANGED <<hs, copies>>
    /\ UNCHANGED <<cfg, pending_bytes, content>>

\* return h, after the block of defer is left
DeferReturn(t) ==
    /\ th[t].pc = "defer_return"
    /\ hs' = [hs EXCEPT ![th[t].h].returned = TRUE]
    /\ th' = [th EXCEPT ![t] = Returned(FALSE)]
    /\ UNCHANGED <<cfg, queue, pending_bytes, lock, copies, content>>

(***************************************************************************)
(* DeepcopyBatcher._flush_locked: the fan-out loops and the reset.         *)
(***************************************************************************)
\* A fan-out whose first statement sets the ready flag, not the value.
FanValueReadyFirst(t) ==
    /\ th[t].pc = "fan_value"
    /\ hs' = [hs EXCEPT ![queue[th[t].i].h].ready = TRUE]
    /\ th' = [th EXCEPT ![t].pc = "fan_ready"]
    /\ UNCHANGED <<cfg, queue, pending_bytes, lock, copies, content>>

\* h._value = c  (h._value = outputs[src_idx]); before the first one,
\* copy.deepcopy has returned.
FanValue(t) ==
    /\ th[t].pc = "fan_value"
    /\ hs' = [hs EXCEPT ![queue[th[t].i].h].value = th[t].outs[th[t].i]]
    /\ th' = [th EXCEPT ![t].pc = "fan_ready", ![t].rd = 0]
    /\ UNCHANGED <<cfg, queue, pending_bytes, lock, copies, content>>

\* h._ready = True, and after the last entry: self._queue.clear(),
\* self._pending_bytes = 0 and the with-block is left, which releases the
\* lock; flush returns, defer goes on to its return statement and get to
\* read h._value.
FanReady(t) ==
    /\ th[t].pc = "fan_ready"
    /\ LET g == queue[th[t].i].h
           me == th[t]
       IN /\ hs' = [hs EXCEPT ![g].ready = TRUE, ![g].batch = me.cn]
          /\ IF me.i < Len(queue)
             THEN /\ th' = [th EXCEPT ![t].pc = "fan_value", ![t].i = me.i + 1]
                  /\ UNCHANGED <<queue, pending_bytes, lock>>
             ELSE /\ queue' = <<>>
                  /\ pending_bytes' = 0
                  /\ lock' = Released(lock)
                  /\ IF me.op \in {"get", "setitem"}
                     THEN th' = [th EXCEPT ![t].pc = "get_read", ![t].i = 0, ![t].outs = <<>>, ![t].cn = 0]
                     ELSE IF me.op = "defer"
                     THEN th' = [th EXCEPT ![t].pc = "defer_return", ![t].i = 0, ![t].outs = <<>>,
                                           ![t].cn = 0]
                     ELSE th' = [th EXCEPT ![t] = Returned(FALSE)]
    /\ UNCHANGED <<cfg, copies, content>>

(***************************************************************************)
(* DeepcopyBatcher.flush                                                   *)
(***************************************************************************)
\* A flush that takes every queue for an empty one.
QueueEmptyAlways(q) == TRUE

\* A flush that takes a queue of one entry for an empty one.
QueueEmptyBelowTwo(q) == Len(q) < 2

\* A flush that takes no queue for an empty one.
QueueEmptyNever(q) == FALSE

\* not self._queue
QueueEmpty(q) == q = <<>>

\* flush() is called and stands at its with-statement.
FlushEnter(t) ==
    /\ th[t].pc = "idle"
    /\ th' = [th EXCEPT ![t] = Running("flush_lock", "flush", 0, 0, <<>>, 0)]
    /\ UNCHANGED <<cfg, queue, pending_bytes, lock, hs, copies, content>>

\* with self._lock: in flush
FlushLock(t) == Lock(t, "flush_lock", "flush_locked")

\* The block of flush, run with the lock held: return if the queue is empty
\* (the block is left and the lock released), else _flush_locked().
Flush(t) ==
    /\ th[t].pc = "flush_locked"
    /\ IF QueueEmpty(queue)
       THEN /\ lock' = Released(lock)
            /\ th' = [th EXCEPT ![t] = Returned(FALSE)]
            /\ UNCHANGED <<queue, hs, copies>>
       ELSE FlushBegin(t, "flush", 0, queue)
    /\ UNCHANGED <<cfg, pending_bytes, content>>

(***************************************************************************)
(* DeepcopyBatcher.get                                                     *)
(***************************************************************************)
\* A get that goes on to self.flush() whether or not the handle is ready.
GetAlwaysFlush(t, h) ==
    /\ th[t].pc = "idle"
    /\ h \in 1..Len(hs)
    /\ hs[h].returned
    /\ th' = [th EXCEPT ![t] = Running("get_flush", "get", h, 0, <<>>, 0)]
    /\ UNCHANGED <<cfg, queue, pending_bytes, lock, hs, copies, content>>

\* if h._ready: return h._value ; otherwise go on to self.flush(), which
\* stands at its with-statement.
Get(t, h) ==
    /\ th[t].pc = "idle"
    /\ h \in 1..Len(hs)
    /\ hs[h].returned
    /\ IF hs[h].ready
       THEN th' = [th EXCEPT ![t] = Returned(FALSE)]
       ELSE th' = [th EXCEPT ![t] = Running("get_flush", "get", h, 0, <<>>, 0)]
    /\ UNCHANGED <<cfg, queue, pending_bytes, lock, hs, copies, content>>

\* with self._lock: in the flush called by get
GetLock(t) == Lock(t, "get_flush", "get_locked")

\* A get that, finding the queue empty, copies the root of its handle again.
GetFlushOwnCopy(t) ==
    /\ th[t].pc = "get_locked"
    /\ IF QueueEmpty(queue)
       THEN LET r == DeepCopy(<<hs[th[t].h].root>>)
            IN /\ th' = [th EXCEPT ![t].pc = "get_read"]
               /\ lock' = Released(lock)
               /\ IF r.ok
                  THEN /\ copies' = copies \o r.new
                       /\ hs' = [hs EXCEPT ![th[t].h].value = r.refs[1]]
                  ELSE UNCHANGED <<copies, hs>>
               /\ UNCHANGED queue
       ELSE FlushBegin(t, th[t].op, th[t].h, queue)
    /\ UNCHANGED <<cfg, pending_bytes, content>>

\* The block of the flush called by get, run with the lock held.
GetFlush(t) ==
    /\ th[t].pc = "get_locked"
    /\ IF QueueEmpty(queue)
       THEN /\ lock' = Released(lock)
            /\ th' = [th EXCEPT ![t].pc = "get_read"]
            /\ UNCHANGED <<queue, hs, copies>>
       ELSE FlushBegin(t, th[t].op, th[t].h, queue)
    /\ UNCHANGED <<cfg, pending_bytes, content>>

\* return h._value
GetRead(t) ==
    /\ th[t].pc = "get_read"
    /\ th[t].op = "get"
    /\ th' = [th EXCEPT ![t] = Returned(FALSE)]
    /\ UNCHANGED <<cfg, queue, pending_bytes, lock, hs, copies, content>>

(***************************************************************************)
(* _Proxy: a wrapper around the batcher and one handle (its only slots),   *)
(* made by defer_proxy from the handle defer returns.  A proxy operation   *)
(* on handle h is an operation of the proxy holding h.                     *)
(***************************************************************************)
\* A _resolve that reads self._handle._value without calling get.
ProxyResolveNoGet(t, h) ==
    /\ th[t].pc = "idle"
    /\ h \in 1..Len(hs)
    /\ hs[h].returned
    /\ th' = [th EXCEPT ![t] = Running("get_read", "get", h, 0, <<>>, 0)]
    /\ UNCHANGED <<cfg, queue, pending_bytes, lock, hs, copies, content>>

\* _resolve, all that __getattr__, __getitem__, __iter__, __len__, __bool__
\* and __str__ do to the batcher before they read the resolved value:
\* return self._batcher.get(self._handle)
ProxyResolve(t, h) == Get(t, h)

\* value[key] = v: the copy the handle holds now shows the content v; a
\* handle without a value makes the assignment raise.
Store(t, h, v) ==
    IF IsCopy(hs[h].value)
    THEN /\ copies' = [copies EXCEPT ![CopyIdx(hs[h].value)].snap = v]
         /\ th' = [th EXCEPT ![t] = Returned(FALSE)]
    ELSE /\ copies' = copies
         /\ th' = [th EXCEPT ![t] = Returned(TRUE)]

\* __setitem__: self._resolve()[key] = value.  For a ready handle get returns
\* at once and the item is stored in the copy the handle holds; otherwise
\* the call goes on to get's flush.
ProxySetItem(t, h, v) ==
    /\ th[t].pc = "idle"
    /\ h \in 1..Len(hs)
    /\ hs[h].returned
    /\ IF hs[h].ready
       THEN Store(t, h, v)
       ELSE /\ th' = [th EXCEPT ![t] = Running("get_flush", "setitem", h, 0, <<>>, 0)]
            /\ copies' = copies
    /\ UNCHANGED <<cfg, queue, pending_bytes, lock, hs, content>>

\* __setitem__ after get has returned from its flush: the item is stored in
\* the copy the handle holds.  No step of the call depends on the value
\* stored before this one, so it is drawn here.
ProxyStore(t, v) ==
    /\ th[t].pc = "get_read"
    /\ th[t].op = "setitem"
    /\ Store(t, th[t].h, v)
    /\ UNCHANGED <<cfg, queue, pending_bytes, lock, hs, content>>

\* What __repr__ answers: the unresolved marker, or the repr of the value
\* the handle holds (resolved tells which, of is that value).
ProxyRepr(h) ==
    IF ~hs[h].ready THEN [resolved |-> FALSE, of |-> None]
                    ELSE [resolved |-> TRUE, of |-> hs[h].value]

\* A __repr__ that resolves the proxy first.
ReprResolving(t, h) ==
    /\ th[t].pc = "idle"
    /\ h \in 1..Len(hs)
    /\ hs[h].returned
    /\ th' = [th EXCEPT ![t] = Running("get_flush", "get", h, 0, <<>>, 0)]
    /\ UNCHANGED <<cfg, queue, pending_bytes, lock, hs, copies, content>>

\* __repr__: reads the handle and returns ProxyRepr(h); it calls nothing.
Repr(t, h) ==
    /\ th[t].pc = "idle"
    /\ h \in 1..Len(hs)
    /\ hs[h].returned
    /\ th' = [th EXCEPT ![t] = Returned(FALSE)]
    /\ UNCHANGED <<cfg, queue, pending_bytes, lock, hs, copies, content>>

(***************************************************************************)
(* The owner of a root changes its content (original['data'].append(30)).  *)
(***************************************************************************)
\* copy.deepcopy of thread t is running: in a strict defer from the call to
\* the assignment of h._value, in a flush from the call to the first
\* assignment of the fan-out.
Copying(t) == th[t].pc = "strict_value" \/ (th[t].pc = "fan_value" /\ th[t].i = 1)

\* The copy of root r that the running copy.deepcopy of thread t is making.
InFlight(t, r) == {o \in {th[t].outs[k] : k \in 1..Len(th[t].outs)} : IsCopy(o) /\ CopyRec(o).src = r}

\* The write is not synchronised with the batcher: it races with every
\* copy.deepcopy that is running on r.  For each of them either the root was
\* read before the write (then so were the roots standing before it in
\* inputs: rd), or it is read after it and the copy shows what was written;
\* the latter is possible only while the root is not known to have been read.
Mutate(r) ==
    /\ content' = [content EXCEPT ![r] = 1 - @]
    /\ LET racing == {t \in Threads : Copying(t) /\ InFlight(t, r) # {}}
           copyOf(t) == CHOOSE o \in InFlight(t, r) : TRUE
       IN \E after \in SUBSET {t \in racing : copyOf(t) > th[t].rd} :
              /\ copies' = [k \in 1..Len(copies) |->
                              IF \E t \in after : CopyIdx(copyOf(t)) = k
                              THEN [copies[k] EXCEPT !.snap = 1 - content[r]]
                              ELSE copies[k]]
              /\ th' = [t \in Threads |->
                          IF t \in racing \ after /\ copyOf(t) > th[t].rd
                          THEN [th[t] EXCEPT !.rd = copyOf(t)]
                          ELSE th[t]]
    /\ UNCHANGED <<cfg, queue, pending_bytes, lock, hs>>

(***************************************************************************)
(* Specifications.  Spec: every thread makes every call on every object    *)
(* while the roots' owners change them.  The others keep the same actions  *)
(* and narrow the callers' inputs to the part of the program a group of    *)
(* properties is about.                                                    *)
(***************************************************************************)
Next ==
    \/ \E t \in Threads, obj \in Objects, c \in ConsistencyArgs, a \in AliasArgs : DeferStrict(t, obj, c, a)
    \/ \E t \in Threads : StrictValue(t)
    \/ \E t \in Threads : StrictReady(t)
    \/ \E t \in Threads, obj \in Objects, c \in ConsistencyArgs, a \in AliasArgs : DeferEnter(t, obj, c, a)
    \/ \E t \in Threads : DeferLock(t)
    \/ \E t \in Threads : DeferQueue(t)
    \/ \E t \in Threads : DeferReturn(t)
    \/ \E t \in Threads : FanValue(t)
    \/ \E t \in Threads : FanReady(t)
    \/ \E t \in Threads : FlushEnter(t)
    \/ \E t \in Threads : FlushLock(t)
    \/ \E t \in Threads : Flush(t)
    \/ \E t \in Threads, h \in 1..MaxHandles : Get(t, h)
    \/ \E t \in Threads : GetLock(t)
    \/ \E t \in Threads : GetFlush(t)
    \/ \E t \in Threads : GetRead(t)
    \/ \E t \in Threads, h \in 1..MaxHandles : ProxyResolve(t, h)
    \/ \E t \in Threads, h \in 1..MaxHandles, v \in Contents : ProxySetItem(t, h, v)
    \/ \E t \in Threads, v \in Contents : ProxyStore(t, v)
    \/ \E t \in Threads, h \in 1..MaxHandles : Repr(t, h)
    \/ \E r \in Copyable : Mutate(r)

Spec == Init /\ [][Next]_vars

\* One caller, every alias and consistency argument, copyable roots that are
\* not changed meanwhile: which copies the handles share.
InitAlias ==
    /\ Init
    /\ cfg \in {Config(DefaultMaxItems, {}, "at_access", "preserve"),
                Config(2, {}, "at_access", "preserve")}

NextAlias ==
    \/ \E obj \in Copyable, c \in ConsistencyArgs, a \in AliasArgs : DeferStrict(1, obj, c, a)
    \/ StrictValue(1)
    \/ StrictReady(1)
    \/ \E obj \in Copyable, c \in ConsistencyArgs, a \in AliasArgs : DeferEnter(1, obj, c, a)
    \/ DeferLock(1)
    \/ DeferQueue(1)
    \/ DeferReturn(1)
    \/ FanValue(1)
    \/ FanReady(1)
    \/ FlushEnter(1)
    \/ FlushLock(1)
    \/ Flush(1)
    \/ \E h \in 1..MaxHandles : Get(1, h)
    \/ GetLock(1)
    \/ GetFlush(1)
    \/ GetRead(1)

SpecAlias == InitAlias /\ [][NextAlias]_vars

\* One caller deferring a mutable root and an immutable object with every
\* alias argument, by the queue and strictly: what copy.deepcopy returns for
\* an object it does not copy.
InitAtom ==
    /\ Init
    /\ cfg = Config(DefaultMaxItems, {}, "at_access", "preserve")

NextAtom ==
    \/ \E obj \in {1, Atom} : DeferStrict(1, obj, "strict", "None")
    \/ StrictValue(1)
    \/ StrictReady(1)
    \/ \E obj \in {1, Atom}, a \in AliasArgs : DeferEnter(1, obj, "None", a)
    \/ DeferLock(1)
    \/ DeferQueue(1)
    \/ DeferReturn(1)
    \/ FanValue(1)
    \/ FanReady(1)
    \/ FlushEnter(1)
    \/ FlushLock(1)
    \/ Flush(1)

SpecAtom == InitAtom /\ [][NextAtom]_vars

\* One caller, every alias and consistency argument, on batchers built with
\* each default consistency and alias: which policy a defer uses.
InitPolicy ==
    /\ Init
    /\ cfg \in {Config(DefaultMaxItems, {}, "at_access", "preserve"),
                Config(DefaultMaxItems, {}, "strict", "preserve"),
                Config(DefaultMaxItems, {}, "at_access", "duplicate")}

\* Defers of one root under every pair of arguments, and explicit flushes.
NextPolicy ==
    \/ \E c \in ConsistencyArgs, a \in AliasArgs : DeferStrict(1, 1, c, a)
    \/ StrictValue(1)
    \/ StrictReady(1)
    \/ \E c \in ConsistencyArgs, a \in AliasArgs : DeferEnter(1, 1, c, a)
    \/ DeferLock(1)
    \/ DeferQueue(1)
    \/ DeferReturn(1)
    \/ FanValue(1)
    \/ FanReady(1)
    \/ FlushEnter(1)
    \/ FlushLock(1)
    \/ Flush(1)

SpecPolicy == InitPolicy /\ [][NextPolicy]_vars

\* The objects some handle was created for.
Deferred == {hs[h].root : h \in 1..Len(hs)}

\* The objects defer is called with while an owner writes to them: the copyable
\* objects start alike and a write to an object no handle refers to changes
\* nothing the batcher reads, so an object is first used after the one before it
\* and only the objects in use are written.
ConsRoots == {r \in Copyable : r = 1 \/ r - 1 \in Deferred}

\* One caller and the owners of the roots changing them, before, while and
\* after copy.deepcopy runs: when the snapshot of a root is taken.  With
\* max_items = 2 defer, get and flush all run flushes.
InitCons ==
    /\ Init
    /\ cfg = Config(2, {}, "at_access", "preserve")

NextCons ==
    \/ \E obj \in ConsRoots \cup {Atom}, c \in ConsistencyArgs : Len(hs) < ConsHandles /\ DeferStrict(1, obj, c, "None")
    \/ StrictValue(1)
    \/ StrictReady(1)
    \/ \E obj \in ConsRoots, c \in ConsistencyArgs : Len(hs) < ConsHandles /\ DeferEnter(1, obj, c, "None")
    \/ DeferLock(1)
    \/ DeferQueue(1)
    \/ DeferReturn(1)
    \/ FanValue(1)
    \/ FanReady(1)
    \/ FlushEnter(1)
    \/ FlushLock(1)
    \/ Flush(1)
    \/ \E h \in 1..MaxHandles : Get(1, h)
    \/ GetLock(1)
    \/ GetFlush(1)
    \/ GetRead(1)
    \/ \E r \in Deferred \cap Copyable : Mutate(r)

SpecCons == InitCons /\ [][NextCons]_vars

\* One caller, every configuration, roots that can and cannot be copied:
\* when a defer flushes.
NextThreshold ==
    \/ \E obj \in Roots, c \in ConsistencyArgs : DeferStrict(1, obj, c, "None")
    \/ StrictValue(1)
    \/ StrictReady(1)
    \/ \E obj \in Roots, c \in ConsistencyArgs : DeferEnter(1, obj, c, "None")
    \/ DeferLock(1)
    \/ DeferQueue(1)
    \/ DeferReturn(1)
    \/ FanValue(1)
    \/ FanReady(1)
    \/ FlushEnter(1)
    \/ FlushLock(1)
    \/ Flush(1)
    \/ \E h \in 1..MaxHandles : Get(1, h)
    \/ GetLock(1)
    \/ GetFlush(1)
    \/ GetRead(1)

SpecThreshold == Init /\ [][NextThreshold]_vars

\* The objects a queued defer of the concurrent specification is called with: the
\* object whose copy fails, and two copyable objects. No action of that
\* specification writes to an object, so the copyable objects are interchangeable
\* and the second is first used after the first.
ConcRoots == {1, BadRoot} \cup {r \in {2} : \E h \in 1..Len(hs) : hs[h].root = 1}

\* Every thread calling defer, get and flush on one batcher.
InitConc ==
    /\ Init
    /\ cfg \in {Config(DefaultMaxItems, {}, "at_access", "preserve"),
                Config(2, {}, "at_access", "preserve"),
                Config(DefaultMaxItems, {0}, "at_access", "preserve")}

NextConc ==
    \/ \E t \in Threads, obj \in {1, BadRoot}, c \in ConsistencyArgs : Len(hs) < ConcHandles /\ DeferStrict(t, obj, c, "None")
    \/ \E t \in Threads : StrictValue(t)
    \/ \E t \in Threads : StrictReady(t)
    \/ \E t \in Threads, obj \in ConcRoots, c \in ConsistencyArgs : Len(hs) < ConcHandles /\ DeferEnter(t, obj, c, "None")
    \/ \E t \in Threads : DeferLock(t)
    \/ \E t \in Threads : DeferQueue(t)
    \/ \E t \in Threads : DeferReturn(t)
    \/ \E t \in Threads : FanValue(t)
    \/ \E t \in Threads : FanReady(t)
    \/ \E t \in Threads : FlushEnter(t)
    \/ \E t \in Threads : FlushLock(t)
    \/ \E t \in Threads : Flush(t)
    \/ \E t \in Threads, h \in 1..MaxHandles : Get(t, h)
    \/ \E t \in Threads : GetLock(t)
    \/ \E t \in Threads : GetFlush(t)
    \/ \E t \in Threads : GetRead(t)

SpecConc == InitConc /\ [][NextConc]_vars

\* Every thread deferring by the queue, roots that can and cannot be copied,
\* and flushing, on batchers with max_items = 1 and 2: how long the queue
\* gets while defers run side by side.
InitBound ==
    /\ Init
    /\ cfg \in {Config(1, {}, "at_access", "preserve"),
                Config(2, {}, "at_access", "preserve")}

NextBound ==
    \/ \E t \in Threads, obj \in {1, BadRoot} : DeferEnter(t, obj, "None", "None")
    \/ \E t \in Threads : DeferLock(t)
    \/ \E t \in Threads : DeferQueue(t)
    \/ \E t \in Threads : DeferReturn(t)
    \/ \E t \in Threads : FanValue(t)
    \/ \E t \in Threads : FanReady(t)
    \/ \E t \in Threads : FlushEnter(t)
    \/ \E t \in Threads : FlushLock(t)
    \/ \E t \in Threads : Flush(t)

SpecBound == InitBound /\ [][NextBound]_vars

\* Every thread using proxies only, on a batcher built with the defaults:
\* defer_proxy (strict or queued, for a root that can or cannot be copied),
\* the operations that resolve, item assignment and __repr__.  One thread
\* creates the proxies while every thread, that one included, uses them.
InitProxy ==
    /\ Init
    /\ cfg = Config(DefaultMaxItems, {}, "at_access", "preserve")

NextProxy ==
    \/ \E t \in {1}, obj \in {1, BadRoot} : Len(hs) < ConcHandles /\ DeferStrict(t, obj, "strict", "None")
    \/ \E t \in Threads : StrictValue(t)
    \/ \E t \in Threads : StrictReady(t)
    \/ \E t \in {1}, obj \in {1, BadRoot} : Len(hs) < ConcHandles /\ DeferEnter(t, obj, "None", "None")
    \/ \E t \in Threads : DeferLock(t)
    \/ \E t \in Threads : DeferQueue(t)
    \/ \E t \in Threads : DeferReturn(t)
    \/ \E t \in Threads : FanValue(t)
    \/ \E t \in Threads : FanReady(t)
    \/ \E t \in Threads, h \in 1..MaxHandles : ProxyResolve(t, h)
    \/ \E t \in Threads, h \in 1..MaxHandles, v \in Contents : ProxySetItem(t, h, v)
    \/ \E t \in Threads : GetLock(t)
    \/ \E t \in Threads : GetFlush(t)
    \/ \E t \in Threads : GetRead(t)
    \/ \E t \in Threads, v \in Contents : ProxyStore(t, v)
    \/ \E t \in Threads, h \in 1..MaxHandles : Repr(t, h)

SpecProxy == InitProxy /\ [][NextProxy]_vars

\* The scheduler is fair to every thread: a thread inside a call takes its
\* next step if that step stays possible.  For a thread standing at a
\* with-statement that is the case only if the lock stays free, and it does
\* not while other threads take it again and again.  Callers need not start
\* new calls.
FairCalls ==
    \A t \in Threads :
        /\ WF_vars(StrictValue(t))
        /\ WF_vars(StrictReady(t))
        /\ WF_vars(DeferLock(t))
        /\ WF_vars(DeferQueue(t))
        /\ WF_vars(DeferReturn(t))
        /\ WF_vars(FanValue(t))
        /\ WF_vars(FanReady(t))
        /\ WF_vars(FlushLock(t))
        /\ WF_vars(Flush(t))
        /\ WF_vars(GetLock(t))
        /\ WF_vars(GetFlush(t))
        /\ WF_vars(GetRead(t))

\* The lock is fair: a thread that finds the lock free again and again while
\* it stands at a with-statement gets it.  threading.RLock promises no such
\* thing: which of the waiting threads gets a released lock is not defined.
FairLock == \A t \in Threads : SF_vars(DeferLock(t) \/ FlushLock(t) \/ GetLock(t))

\* One thread calling defer (strict or queued, for a root that can or
\* cannot be copied) and every thread, that one included, calling get and
\* flush as often as it likes, on one batcher with max_items = 2, so that
\* defer, get and flush all run flushes, under fair scheduling.
InitFair ==
    /\ Init
    /\ cfg = Config(2, {}, "at_access", "preserve")

NextFair ==
    \/ \E t \in {1}, obj \in {1, BadRoot} : Len(hs) < ConcHandles /\ DeferStrict(t, obj, "strict", "None")
    \/ \E t \in Threads : StrictValue(t)
    \/ \E t \in Threads : StrictReady(t)
    \/ \E t \in {1}, obj \in {1, BadRoot} : Len(hs) < ConcHandles /\ DeferEnter(t, obj, "None", "None")
    \/ \E t \in Threads : DeferLock(t)
    \/ \E t \in Threads : DeferQueue(t)
    \/ \E t \in Threads : DeferReturn(t)
    \/ \E t \in Threads : FanValue(t)
    \/ \E t \in Threads : FanReady(t)
    \/ \E t \in Threads : FlushEnter(t)
    \/ \E t \in Threads : FlushLock(t)
    \/ \E t \in Threads : Flush(t)
    \/ \E t \in Threads, h \in 1..MaxHandles : Get(t, h)
    \/ \E t \in Threads : GetLock(t)
    \/ \E t \in Threads : GetFlush(t)
    \/ \E t \in Threads : GetRead(t)

SpecFair == InitFair /\ [][NextFair]_vars /\ FairCalls

(***************************************************************************)
(* Properties                                                              *)
(***************************************************************************)
Handles == 1..Len(hs)

\* The root a copy was made from and the content it shows.
Src(o) == CopyRec(o).src
Snap(o) == CopyRec(o).snap

\* h was queued and a flush has resolved it.
Flushed(h) == hs[h].cons = "at_access" /\ hs[h].ready

\* h1 and h2 were resolved by the same flush.
SameFlush(h1, h2) == Flushed(h1) /\ Flushed(h2) /\ hs[h1].batch = hs[h2].batch

\* In this step the defer of thread t, which is not strict, runs its
\* with-block: it appends the entry of its handle th[t].h.
QueuedDefer(t) == th[t].pc = "defer_locked" /\ th'[t].pc # "defer_locked"

\* In this step thread t, holding the lock, calls copy.deepcopy for the
\* queue and goes on to the fan-out.
FlushBegins(t) == th[t].pc \in {"defer_locked", "flush_locked", "get_locked"} /\ th'[t].pc = "fan_value"

\* C1 (Forced distinctness): two handles deferred with alias=duplicate for the
\* same root and resolved never hold the same output reference.
C1_ForcedDistinctness ==
    \A h1 \in Handles, h2 \in Handles :
        ( /\ h1 # h2
          /\ Flushed(h1) /\ Flushed(h2)
          /\ hs[h1].alias = "duplicate" /\ hs[h2].alias = "duplicate"
          /\ hs[h1].root = hs[h2].root )
        => hs[h1].value # hs[h2].value

\* C2 (Identity preservation), as the specification states it: handles
\* deferred with alias=preserve for the same object and resolved by the same
\* flush hold one output reference, which is a copy of that object and not
\* the object itself, whatever the object.
C2_IdentityPreservation ==
    \A h1 \in Handles, h2 \in Handles :
        ( /\ SameFlush(h1, h2)
          /\ hs[h1].alias = "preserve" /\ hs[h2].alias = "preserve"
          /\ hs[h1].root = hs[h2].root )
        => /\ hs[h1].value = hs[h2].value
           /\ hs[h1].value # hs[h1].root

\* C2 (Identity preservation), amended: handles deferred with
\* alias=preserve for the same object and resolved by the same flush hold one
\* output reference; for a mutable root it is a copy of that root, made by
\* that flush, and not the root itself; for an immutable object it is the
\* object itself.
C2_SharedOutput ==
    \A h1 \in Handles, h2 \in Handles :
        ( /\ SameFlush(h1, h2)
          /\ hs[h1].alias = "preserve" /\ hs[h2].alias = "preserve"
          /\ hs[h1].root = hs[h2].root )
        => /\ hs[h1].value = hs[h2].value
           /\ IF hs[h1].root = Atom
              THEN hs[h1].value = hs[h1].root
              ELSE /\ IsCopy(hs[h1].value)
                   /\ Src(hs[h1].value) = hs[h1].root
                   /\ CopyRec(hs[h1].value).call = hs[h1].batch
                   /\ hs[h1].value # hs[h1].root

\* One flush has resolved two preserve handles of a mutable root, which
\* share a copy, and before them a preserve handle of an immutable object,
\* which holds that object.
C2_Witness ==
    \E h1 \in Handles, h2 \in Handles, h3 \in Handles :
        /\ h3 < h1 /\ h1 < h2
        /\ SameFlush(h1, h2) /\ SameFlush(h1, h3)
        /\ hs[h1].alias = "preserve" /\ hs[h2].alias = "preserve" /\ hs[h3].alias = "preserve"
        /\ hs[h1].root = hs[h2].root /\ hs[h1].root \in Copyable
        /\ hs[h3].root = Atom /\ hs[h3].value = Atom
        /\ hs[h1].value = hs[h2].value /\ IsCopy(hs[h1].value)

\* The handles one flush has resolved, when they are preserve entries of one
\* root A and duplicate entries of another root B.
MixedBatch(S) ==
    \E A \in Copyable, B \in Copyable :
        /\ A # B
        /\ \A h \in S : \/ hs[h].alias = "preserve" /\ hs[h].root = A
                        \/ hs[h].alias = "duplicate" /\ hs[h].root = B
        /\ \E h \in S : hs[h].alias = "preserve"
        /\ \E h \in S : hs[h].alias = "duplicate"

\* C3 (Mixed-policy independence): in a batch of preserve entries for A and
\* duplicate entries for B, A's handles share one output, every B handle holds
\* an output no other handle holds, and no A output is held by a B handle.
C3_MixedPolicyIndependence ==
    \A g \in Handles :
        LET S == {h \in Handles : SameFlush(g, h)}
        IN (Flushed(g) /\ MixedBatch(S)) =>
              \A h1 \in S, h2 \in S :
                  h1 # h2 =>
                     IF hs[h1].alias = "preserve" /\ hs[h2].alias = "preserve"
                     THEN hs[h1].value = hs[h2].value
                     ELSE hs[h1].value # hs[h2].value

\* C4 (End-to-end example): default batcher, h1 = defer(x), h2 = defer(x,
\* alias=duplicate), flush(), then a further defer(x) resolved by get: h1 and
\* the further handle hold the same reference, h2 a different copy of x.
C4_EndToEnd ==
    ( /\ cfg = Config(DefaultMaxItems, {}, "at_access", "preserve")
      /\ Len(hs) = 3
      /\ \A h \in Handles : Flushed(h) /\ hs[h].root = hs[1].root
      /\ hs[1].alias = "preserve" /\ hs[2].alias = "duplicate" /\ hs[3].alias = "preserve"
      /\ hs[1].batch = hs[2].batch
      /\ hs[3].batch # hs[1].batch )
    => /\ hs[1].value = hs[3].value
       /\ hs[2].value # hs[1].value
       /\ hs[2].value # hs[3].value
       /\ \A h \in Handles : IsCopy(hs[h].value) /\ Src(hs[h].value) = hs[1].root

\* C5 (Strict consistency), as the specification states it, read for a
\* mutable x: a handle returned by defer(x, consistency=strict) is ready and
\* its value is a copy of x showing the content x had when defer was called,
\* whatever happens to x or to the batcher afterwards.
C5_StrictConsistency ==
    \A h \in Handles :
        (hs[h].cons = "strict" /\ hs[h].returned /\ hs[h].root \in Copyable) =>
            /\ hs[h].ready
            /\ IsCopy(hs[h].value)
            /\ Src(hs[h].value) = hs[h].root
            /\ Snap(hs[h].value) = hs[h].dsnap

\* C5 (Strict consistency), amended: defer(x, consistency=strict) copies x
\* as it is when copy.deepcopy is called, or as a write the owner of x makes
\* while that copy.deepcopy runs leaves it; the handle it returns is ready
\* and holds that copy of x (x itself when x is immutable), and once
\* copy.deepcopy has returned no write to x, flush or get changes the value
\* or the copy.
C5_StrictSnapshot ==
    [][ /\ \A t \in Threads :
              (th[t].pc = "idle" /\ th'[t].pc = "strict_value") =>
                  LET o == th'[t].outs[1]
                      h == th'[t].h
                  IN /\ IF hs'[h].root = Atom
                        THEN o = Atom /\ copies' = copies
                        ELSE /\ o > Atom /\ o <= Atom + Len(copies')
                             /\ copies'[o - Atom].src = hs'[h].root
                             /\ copies'[o - Atom].snap = content[hs'[h].root]
                             /\ hs'[h].dsnap = content[hs'[h].root]
                     /\ ~hs'[h].returned
        /\ \A t \in Threads :
              (th[t].pc = "strict_value" /\ hs'[th[t].h].value # None) =>
                  /\ hs'[th[t].h].value = th[t].outs[1]
                  /\ th'[t].pc = "strict_ready"
        /\ \A h \in Handles :
              (hs[h].cons = "strict" /\ hs'[h].returned) =>
                  /\ hs'[h].ready
                  /\ IF hs'[h].root = Atom
                     THEN hs'[h].value = Atom
                     ELSE IsCopy(hs'[h].value) /\ Src(hs'[h].value) = hs'[h].root
        /\ \A h \in Handles :
              (hs[h].cons = "strict" /\ hs[h].value # None) =>
                  /\ hs'[h].value = hs[h].value
                  /\ IsCopy(hs[h].value) =>
                        copies'[CopyIdx(hs[h].value)] = copies[CopyIdx(hs[h].value)]
        /\ \A t \in Threads :
              ( /\ th[t].pc = "strict_value" /\ IsCopy(th[t].outs[1])
                /\ copies'[CopyIdx(th[t].outs[1])] # copies[CopyIdx(th[t].outs[1])] ) =>
                  LET k == CopyIdx(th[t].outs[1])
                  IN /\ content'[copies[k].src] # content[copies[k].src]
                     /\ copies'[k] = [copies[k] EXCEPT !.snap = content'[copies[k].src]]
      ]_vars

\* A strict handle whose root was written while defer's copy.deepcopy ran,
\* so that the copy shows the written content and not the content at the
\* call, and was written again after defer returned, with another request
\* flushed since.
C5_Witness ==
    \E h \in Handles, g \in Handles :
        /\ hs[h].cons = "strict" /\ hs[h].returned /\ hs[h].ready
        /\ IsCopy(hs[h].value)
        /\ Snap(hs[h].value) # hs[h].dsnap
        /\ content[hs[h].root] # Snap(hs[h].value)
        /\ g > h /\ Flushed(g) /\ hs[g].root = hs[h].root

\* C6 (At-access consistency): the copies a flush makes show each queued root
\* as it is when the flush runs: as it is when copy.deepcopy is called, or as
\* a write made while copy.deepcopy runs leaves it, so that every change made
\* before the flush is reflected; a queued handle gets its value from that
\* flush only, and once copy.deepcopy has returned neither the value nor the
\* copy changes, whatever is done to the root.
C6_AtAccessConsistency ==
    [][ /\ \A t \in Threads :
              FlushBegins(t) =>
                  \A k \in 1..Len(queue') :
                      LET o == th'[t].outs[k]
                      IN /\ o > Atom /\ o <= Atom + Len(copies')
                         /\ copies'[o - Atom].src = queue'[k].obj
                         /\ copies'[o - Atom].snap = content[queue'[k].obj]
        /\ \A h \in Handles :
              (hs[h].cons = "at_access" /\ hs'[h].value # hs[h].value) =>
                  /\ hs[h].value = None
                  /\ \E t \in Threads :
                        /\ th[t].pc = "fan_value"
                        /\ queue[th[t].i].h = h
                        /\ hs'[h].value = th[t].outs[th[t].i]
        /\ \A k \in 1..Len(copies) :
              copies'[k] # copies[k] =>
                  /\ \E t \in Threads : Copying(t) /\ CopyId(k) \in InFlight(t, copies[k].src)
                  /\ \A h \in Handles : hs[h].value # CopyId(k)
                  /\ content'[copies[k].src] # content[copies[k].src]
                  /\ copies'[k] = [copies[k] EXCEPT !.snap = content'[copies[k].src]]
      ]_vars

\* A flushed handle whose root was changed between the defer and the flush
\* and again after the flush: the copy shows the content at the flush.
C6_Witness ==
    \E h \in Handles :
        /\ Flushed(h) /\ hs[h].returned
        /\ Snap(hs[h].value) # hs[h].dsnap
        /\ content[hs[h].root] # Snap(hs[h].value)

\* The defer of thread t has left its with-block through its own flush and
\* is about to return its handle.
ReturnsFromFlush(t) == th[t].pc = "defer_return" /\ th[t].calls = 1

\* C7 (Auto-flush threshold), as the specification states it: a defer that
\* is not strict and brings the queue to max_items entries does not return
\* before a flush has run, so that when it returns the queue is empty and
\* every handle that was queued, its own included, is ready.
C7_AutoFlushThreshold ==
    [][ /\ \A t \in Threads :
               (QueuedDefer(t) /\ Len(queue) + 1 >= cfg.max_items) =>
                   \/ th'[t].pc = "fan_value" /\ th'[t].op = "defer"
                   \/ th'[t].pc = "idle" /\ th'[t].err
        /\ \A t \in Threads :
               (ReturnsFromFlush(t) /\ th'[t].pc = "idle") =>
                   /\ queue' = <<>>
                   /\ hs'[th[t].h].ready /\ hs'[th[t].h].returned
      ]_vars

\* C7 (Auto-flush threshold), amended: a defer that is not strict and
\* brings the queue to max_items entries does not leave its with-block
\* before a flush has run in it; when that flush ends and the lock is
\* released the queue is empty and every handle that was queued, its own
\* included, is ready; the handle it then returns is ready, but the queue
\* may by then hold what other threads have deferred since.
C7_AutoFlushInBlock ==
    [][ /\ \A t \in Threads :
               (QueuedDefer(t) /\ Len(queue) + 1 >= cfg.max_items) =>
                   /\ ~hs'[th[t].h].returned
                   /\ \/ /\ th'[t].pc = "fan_value" /\ th'[t].op = "defer" /\ th'[t].h = th[t].h
                         /\ queue'[Len(queue')].h = th[t].h
                         /\ lock'.owner = t
                      \/ th'[t].pc = "idle" /\ th'[t].err
        /\ \A t \in Threads :
               (th[t].pc = "fan_ready" /\ th[t].op = "defer" /\ th'[t].pc = "defer_return") =>
                   /\ ReturnsFromFlush(t)'
                   /\ lock.owner = t /\ lock'.owner = 0
                   /\ queue' = <<>>
                   /\ \A k \in 1..Len(queue) : hs'[queue[k].h].ready
                   /\ hs'[th[t].h].ready /\ ~hs'[th[t].h].returned
        /\ \A t \in Threads :
               (ReturnsFromFlush(t) /\ th'[t].pc = "idle") =>
                   /\ hs'[th[t].h].ready /\ hs'[th[t].h].returned
                   /\ ~th'[t].err
      ]_vars

\* max_items = 2: the second defer has run its flush, which made the first
\* two handles ready, and is about to return; meanwhile another thread has
\* deferred a third request, which waits in the queue.
C7_Witness ==
    \E t \in Threads, u \in Threads :
        /\ t # u
        /\ cfg.max_items = 2 /\ cfg.max_bytes = {}
        /\ ReturnsFromFlush(t) /\ th[t].h = 2
        /\ SameFlush(1, 2) /\ hs[1].returned
        /\ Len(queue) = 1 /\ queue[1].h = 3
        /\ th[u].pc = "defer_return" /\ th[u].h = 3

\* C8 (Laziness): a defer that is not strict and leaves the queue below
\* max_items entries invokes no copy: it only appends its entry and goes on
\* to return, the handle it returns is not ready and the handles are as
\* before.
C8_Laziness ==
    [][ \A t \in Threads :
          (QueuedDefer(t) /\ Len(queue) + 1 < cfg.max_items) =>
              /\ copies' = copies
              /\ th'[t].pc = "defer_return"
              /\ Len(queue') = Len(queue) + 1
              /\ ~hs'[th[t].h].ready /\ hs'[th[t].h].value = None
              /\ \A h \in Handles : hs'[h] = hs[h]
      ]_vars

\* C9 (Concurrent queuing): with max_items above the number of defers, every
\* defer that is not strict, whatever the thread and the interleaving, adds
\* its own entry at the end of the queue and leaves the others, so that N*M
\* defers leave N*M entries; a flush that then returns leaves them all ready.
C9_ConcurrentQueuing ==
    [][ /\ \A t \in Threads :
               (QueuedDefer(t) /\ cfg.max_items > ConcHandles) =>
                   /\ Len(queue') = Len(queue) + 1
                   /\ \A k \in 1..Len(queue) : queue'[k] = queue[k]
                   /\ queue'[Len(queue')].h = th[t].h
                   /\ \A u \in Threads : th'[u].pc # "fan_value"
        /\ \A t \in Threads :
               (th[t].pc = "fan_ready" /\ th[t].op = "flush" /\ th'[t].pc = "idle") =>
                   /\ queue' = <<>>
                   /\ \A k \in 1..Len(queue) : hs'[queue[k].h].ready
      ]_vars

\* C10 (get resolves): the handle get reads its result from is ready and holds
\* a copy of the root it was deferred with, never None: on the fast path (the
\* handle was found ready) and at the last line of get (after its flush),
\* whatever the other threads do.
C10_GetResolves ==
    /\ \A h \in Handles :
          (hs[h].returned /\ hs[h].ready) =>
              /\ hs[h].value # None
              /\ IsCopy(hs[h].value)
              /\ Src(hs[h].value) = hs[h].root
    /\ \A t \in Threads :
          th[t].pc = "get_read" =>
              /\ hs[th[t].h].ready
              /\ hs[th[t].h].value # None
              /\ IsCopy(hs[th[t].h].value)
              /\ Src(hs[th[t].h].value) = hs[th[t].h].root

\* A get that found its handle pending and then the queue empty, because
\* another thread's flush resolved the handle meanwhile, about to return.
C10_Witness ==
    \E t \in Threads :
        /\ th[t].pc = "get_read" /\ th[t].calls = 0
        /\ hs[th[t].h].cons = "at_access"
        /\ hs[th[t].h].ready

\* Thread t is in the fan-out of a flush.
FlushRunning(t) == th[t].pc \in {"fan_value", "fan_ready"}

\* The queue q holds a root copy.deepcopy cannot copy.
HasBad(q) == \E k \in 1..Len(q) : q[k].obj = BadRoot

\* The handle h has an entry in the queue.
InQueue(h) == \E k \in 1..Len(queue) : queue[k].h = h

\* This step is thread t running the with-block of a call that may flush:
\* flush, the flush of get, or a defer that is not strict.
FlushTriggered(t) ==
    \/ Flush(t)
    \/ GetFlush(t)
    \/ DeferQueue(t)

\* C11 (Blast radius): a get on a pending handle flushes the whole queue: it
\* skips the flush only when nothing is queued, its one copy covers every
\* queued entry, and when its flush is over the queue is empty and every
\* handle that was queued, its own or not, is ready with its output.
C11_BlastRadius ==
    [][ \A t \in Threads :
          /\ (th[t].pc = "get_locked" /\ th'[t].pc = "get_read") => queue = <<>>
          /\ (th[t].pc = "get_locked" /\ th'[t].pc = "fan_value") =>
                 /\ queue' = queue
                 /\ Len(th'[t].outs) = Len(queue)
          /\ (FlushRunning(t) /\ th[t].op = "get" /\ th'[t].pc # "get_read") => queue' = queue
          /\ (th[t].pc = "fan_ready" /\ th[t].op = "get" /\ th'[t].pc = "get_read") =>
                 /\ queue' = <<>>
                 /\ hs'[th[t].h].ready
                 /\ \A k \in 1..Len(queue) :
                       /\ hs'[queue[k].h].ready
                       /\ hs'[queue[k].h].value = th[t].outs[k]
                       /\ hs'[queue[k].h].value # None
      ]_vars

\* A get that found its handle pending has flushed and is about to return;
\* the flush also resolved a handle the get was not asked for.
C11_Witness ==
    \E t \in Threads, g \in Handles :
        /\ th[t].pc = "get_read" /\ th[t].calls = 1
        /\ g # th[t].h
        /\ SameFlush(g, th[t].h)
        /\ queue = <<>>

\* C12 (get on a ready handle): a get on a handle that is ready, strict or
\* flushed, returns at once without raising: no copy is made, the queue, the
\* lock and every handle are as before; get goes on to flush only for a
\* handle it found pending.
C12_ReadyGet ==
    [][ \A t \in Threads :
          /\ \A h \in Handles :
                (hs[h].ready /\ th'[t] # th[t] /\ Get(t, h)) =>
                    /\ th'[t].pc = "idle" /\ ~th'[t].err
                    /\ copies' = copies
                    /\ queue' = queue
                    /\ lock' = lock
                    /\ hs' = hs
          /\ (th[t].pc = "idle" /\ th'[t].pc = "get_flush") => ~hs[th'[t].h].ready
      ]_vars

\* A strict handle is ready while another handle waits in the queue and no
\* call is running: get on the strict handle leaves this state as it is.
C12_Witness ==
    \E h \in Handles, g \in Handles :
        /\ hs[h].cons = "strict" /\ hs[h].ready /\ hs[h].returned
        /\ hs[g].cons = "at_access" /\ ~hs[g].ready /\ hs[g].returned /\ InQueue(g)
        /\ \A t \in Threads : th[t].pc = "idle" /\ ~th[t].err
        /\ lock.owner = 0

\* C13 (Successful flush): a flush copies for every entry of the queue it
\* starts with, the queue stays as it is while the flush runs, and when the
\* flush is over (in flush, get or defer) the queue is empty and every handle
\* that was queued is ready and holds its output, a copy of its own root.
C13_FlushCompletes ==
    [][ \A t \in Threads :
          /\ FlushBegins(t) => Len(th'[t].outs) = Len(queue')
          /\ (FlushRunning(t) /\ FlushRunning(t)') => queue' = queue
          /\ (th[t].pc = "fan_ready" /\ ~FlushRunning(t)') =>
                 /\ ~th'[t].err
                 /\ queue' = <<>>
                 /\ pending_bytes' = 0
                 /\ \A k \in 1..Len(queue) :
                       /\ hs'[queue[k].h].ready
                       /\ hs'[queue[k].h].value = th[t].outs[k]
                       /\ IsCopy(hs'[queue[k].h].value)
                       /\ Src(hs'[queue[k].h].value) = hs'[queue[k].h].root
      ]_vars

\* An explicit flush of two entries for different roots has returned: both
\* handles are ready and the queue is empty.
C13_Witness ==
    \E h1 \in Handles, h2 \in Handles :
        /\ h1 # h2
        /\ SameFlush(h1, h2)
        /\ hs[h1].root # hs[h2].root
        /\ hs[h1].returned /\ hs[h2].returned
        /\ queue = <<>>
        /\ \A t \in Threads : th[t].pc = "idle" /\ ~th[t].err

\* C14 (flush on an empty queue): a flush that finds the queue empty returns
\* without raising and changes nothing: no copy, no handle, the queue still
\* empty, the lock free again as before the call; nor does a flush change
\* any of these before it has the lock.
C14_FlushEmptyNoOp ==
    [][ \A t \in Threads :
          /\ (Flush(t) /\ queue = <<>>) =>
                 /\ th'[t].pc = "idle" /\ ~th'[t].err
                 /\ copies' = copies
                 /\ hs' = hs
                 /\ queue' = <<>>
                 /\ pending_bytes' = pending_bytes
                 /\ lock' = [owner |-> 0, count |-> 0]
          /\ FlushEnter(t) => lock' = lock
          /\ FlushLock(t) => (lock = [owner |-> 0, count |-> 0] /\ lock' = [owner |-> t, count |-> 1])
          /\ (FlushEnter(t) \/ FlushLock(t)) =>
                 /\ copies' = copies
                 /\ hs' = hs
                 /\ queue' = queue
                 /\ pending_bytes' = pending_bytes
      ]_vars

\* An earlier flush has resolved two handles and emptied the queue, and no
\* call is running: flush leaves this state as it is.
C14_Witness ==
    /\ queue = <<>>
    /\ Len(hs) >= 2
    /\ \A h \in Handles : Flushed(h) /\ hs[h].returned
    /\ \A t \in Threads : th[t].pc = "idle" /\ ~th[t].err
    /\ lock.owner = 0

\* C15 (One copy per flush): the step that starts the fan-out of a flush is
\* one copy.deepcopy invocation, which made every object the flush allocates,
\* whatever the entries and their alias policies; the rest of the flush
\* makes no copy.
C15_OneCallPerFlush ==
    [][ \A t \in Threads :
          /\ FlushBegins(t) =>
                 /\ th'[t].calls = 1
                 /\ NCalls' = NCalls + 1
                 /\ Len(copies') > Len(copies)
                 /\ \A k \in 1..Len(copies') :
                       IF k <= Len(copies) THEN copies'[k] = copies[k]
                                           ELSE copies'[k].call = NCalls + 1
                 /\ \A k \in 1..Len(queue') :
                       \E j \in (Len(copies) + 1)..Len(copies') : th'[t].outs[k] = CopyId(j)
          /\ (FlushRunning(t) /\ th'[t] # th[t]) =>
                 /\ copies' = copies
                 /\ th'[t].pc # "idle" => th'[t].calls = 1
      ]_vars

\* A flush of three entries, preserve and duplicate, for two roots has made
\* its copy and starts to fan out.
C15_Witness ==
    \E t \in Threads :
        /\ th[t].pc = "fan_value" /\ th[t].i = 1 /\ th[t].calls = 1
        /\ Len(queue) = 3
        /\ \E j \in 1..3, k \in 1..3 :
              /\ queue[j].alias = "preserve" /\ queue[k].alias = "duplicate"
              /\ queue[j].obj # queue[k].obj
              /\ th[t].outs[j] # th[t].outs[k]

\* C16 (Queue cleared on failure): when a call that flushes (flush, get or an
\* auto-flushing defer) raises because the copy failed, the queue is empty.
C16_QueueClearedOnFailure ==
    [][ \A t \in Threads :
          (FlushTriggered(t) /\ th'[t].pc = "idle" /\ th'[t].err) => queue' = <<>>
      ]_vars

\* The defer that made the handle h has not run its with-block yet.
NotQueuedYet(h) == \E t \in Threads : th[t].pc \in {"defer_lock", "defer_locked"} /\ th[t].h = h

\* C17 (All-or-nothing flush): a flush whose copy raises leaves every handle's
\* value and readiness as they were and makes no copy; and whenever no flush
\* is running, every queued request is either still in the queue, pending
\* with no value, or out of the queue, ready with a copy.
C17_AllOrNothing ==
    [][ /\ \A t \in Threads :
              (FlushTriggered(t) /\ th'[t].pc = "idle" /\ th'[t].err) =>
                  /\ copies' = copies
                  /\ \A h \in Handles :
                        hs'[h].ready = hs[h].ready /\ hs'[h].value = hs[h].value
                  /\ \A k \in 1..Len(queue') :
                        ~hs'[queue'[k].h].ready /\ hs'[queue'[k].h].value = None
        /\ (\A t \in Threads : ~FlushRunning(t)') =>
              \A h \in 1..Len(hs') :
                  (hs'[h].cons = "at_access" /\ ~NotQueuedYet(h)') =>
                      IF \E k \in 1..Len(queue') : queue'[k].h = h
                      THEN ~hs'[h].ready /\ hs'[h].value = None
                      ELSE hs'[h].ready /\ hs'[h].value # None
      ]_vars

\* max_items = 2: the second defer's flush raised on its own root; the first
\* handle, whose root can be copied, is still pending in the queue.
C17_Witness ==
    \E t \in Threads :
        /\ cfg.max_items = 2 /\ cfg.max_bytes = {}
        /\ th[t].pc = "idle" /\ th[t].err
        /\ Len(queue) = 2
        /\ queue[1].obj \in Copyable /\ queue[2].obj = BadRoot
        /\ hs[queue[1].h].returned /\ ~hs[queue[1].h].ready /\ hs[queue[1].h].value = None
        /\ ~hs[queue[2].h].returned /\ ~hs[queue[2].h].ready

\* C18 (Failure surfaces): a flush, a get's flush or an auto-flushing defer
\* whose batch holds a root that cannot be copied raises: the call ends with
\* an error, get does not go on to read a value and defer hands out no
\* handle; nothing is copied in a retry, and a get that reads its result
\* reads a ready handle.
C18_FailureSurfaces ==
    [][ \A t \in Threads :
          /\ ((Flush(t) \/ GetFlush(t)) /\ HasBad(queue)) =>
                 /\ th'[t].pc = "idle" /\ th'[t].err
                 /\ copies' = copies
          /\ (DeferQueue(t) /\ HasBad(queue') /\ ShouldFlushLocked(queue')) =>
                 /\ th'[t].pc = "idle" /\ th'[t].err
                 /\ copies' = copies
                 /\ ~hs'[th[t].h].returned
          /\ th'[t].pc = "get_read" => hs'[th'[t].h].ready
      ]_vars

\* max_items = 1: the defer of a root that cannot be copied has raised from
\* its auto-flush without handing out its handle.
C18_Witness ==
    \E t \in Threads :
        /\ cfg.max_items = 1
        /\ th[t].pc = "idle" /\ th[t].err
        /\ Len(hs) = 1 /\ Len(queue) = 1
        /\ queue[1].obj = BadRoot
        /\ ~hs[1].returned /\ ~hs[1].ready

\* C19 (defer never fails): a defer that does not flush, strict or not, for a
\* root that can be copied or not, does not raise.
C19_DeferNeverFails ==
    [][ \A t \in Threads :
          ( \/ \E obj \in Roots, c \in ConsistencyArgs, a \in AliasArgs : DeferStrict(t, obj, c, a)
            \/ DeferQueue(t) /\ ~ShouldFlushLocked(queue') ) =>
              ~(th'[t].pc = "idle" /\ th'[t].err)
      ]_vars

\* C20 (Configuration validated at construction): no batcher with
\* max_items <= 0 has accepted a defer.
C20_ConstructionValidates == cfg.max_items <= 0 => hs = <<>>

\* C21 (Handle lifecycle): a handle is created not ready; once its ready flag
\* is true it stays true, and from then on its value is never assigned again.
C21_HandleLifecycle ==
    [][ /\ \A h \in Handles :
              hs[h].ready => (hs'[h].ready /\ hs'[h].value = hs[h].value)
        /\ Len(hs') >= Len(hs)
        /\ \A h \in 1..Len(hs') : h > Len(hs) => ~hs'[h].ready
      ]_vars

\* A handle made ready by one flush is still ready, with its value, after a
\* later flush has resolved another handle.
C21_Witness ==
    \E h \in Handles, g \in Handles :
        /\ Flushed(h) /\ Flushed(g)
        /\ hs[g].batch > hs[h].batch
        /\ hs[h].returned /\ hs[g].returned
        /\ \A t \in Threads : th[t].pc = "idle"

\* C22 (Queue invariant): whenever no thread holds the lock, no handle that
\* has an entry in the queue is ready.
C22_QueueInvariant ==
    lock.owner = 0 => \A k \in 1..Len(queue) : ~hs[queue[k].h].ready

\* After a call that raised and a strict defer, the lock is free and the
\* queue holds a pending entry while a strict handle is ready.
C22_Witness ==
    /\ lock.owner = 0
    /\ HasBad(queue)
    /\ \E t \in Threads : th[t].pc = "idle" /\ th[t].err
    /\ \E h \in Handles : hs[h].cons = "strict" /\ hs[h].ready

\* C23 (Primitive under the lock): whenever a call has made a copy, the
\* thread that made it holds the lock.
C23_CopyUnderLock ==
    [][ copies' # copies => \E t \in Threads : th'[t] # th[t] /\ lock'.owner = t ]_vars

\* Every call thread t has started returns (normally or with an error).
CallsReturn(t) == (th[t].pc # "idle") ~> (th[t].pc = "idle")

\* Thread t stands at a with-statement and waits for the lock.
WaitsForLock(t) == th[t].pc \in {"defer_lock", "flush_lock", "get_flush"}

\* C24 (No deadlock), as the specification states it: under fair scheduling
\* of the threads, every call a thread has started returns (normally or with
\* an error); no thread waits for the lock for ever.
C24_NoDeadlock == \A t \in Threads : CallsReturn(t)

\* C24 (No deadlock), amended: under fair scheduling of the threads, every
\* thread that holds the lock releases it and every call that is not waiting
\* for the lock returns, so the lock is never held for ever; a call that
\* waits for the lock returns if the lock is fair, that is if a thread that
\* finds the lock free again and again gets it.  Nothing else makes it
\* return: other threads may take the lock again and again before it.
C24_NoDeadlockFairLock ==
    /\ \A t \in Threads : (lock.owner = t) ~> (lock.owner # t)
    /\ \A t \in Threads : (th[t].pc # "idle" /\ ~WaitsForLock(t)) ~> (th[t].pc = "idle")
    /\ FairLock => \A t \in Threads : CallsReturn(t)

\* A defer waits for the lock while another thread, which called flush,
\* holds it, and a handle is ready: the other thread has held the lock
\* before.
C24_Witness ==
    \E t \in Threads, u \in Threads :
        /\ t # u
        /\ th[t].pc = "defer_lock"
        /\ lock.owner = u
        /\ th[u].pc = "flush_locked"
        /\ \E h \in Handles : Flushed(h)

\* C25 (Strict defer and the queue): a strict defer leaves the queue and
\* every queued handle as they are, a strict handle never has an entry in the
\* queue, and once it is handed out no step, of a flush or of anything else,
\* changes it.
C25_StrictOffQueue ==
    [][ /\ \A t \in Threads :
              ( \/ /\ th[t].pc = "idle" /\ th'[t] # th[t]
                   /\ \E obj \in Roots, c \in ConsistencyArgs, a \in AliasArgs : DeferStrict(t, obj, c, a)
                \/ StrictValue(t)
                \/ StrictReady(t) ) =>
                  /\ queue' = queue
                  /\ pending_bytes' = pending_bytes
                  /\ \A h \in Handles : hs[h].cons = "at_access" => hs'[h] = hs[h]
        /\ \A h \in 1..Len(hs') :
              hs'[h].cons = "strict" => \A k \in 1..Len(queue') : queue'[k].h # h
        /\ \A h \in Handles :
              (hs[h].cons = "strict" /\ hs[h].returned) => hs'[h] = hs[h]
      ]_vars

\* A strict defer was made while a handle was waiting in the queue, and a
\* later flush has resolved that handle.
C25_Witness ==
    \E h \in Handles, g \in Handles :
        /\ hs[h].cons = "strict" /\ hs[h].ready /\ hs[h].returned
        /\ g < h
        /\ Flushed(g) /\ hs[g].batch > hs[h].batch
        /\ queue = <<>>

\* C28 (Configuration is immutable): no step of defer, get or flush, whether
\* it succeeds or raises, changes max_items, max_bytes, the default
\* consistency or the default alias policy.
C28_ConfigImmutable == [][cfg' = cfg]_vars

\* A batcher built with max_bytes = 1 and consistency and alias left to
\* their defaults has resolved a handle by a flush, made a strict handle on
\* a per-call override, and its last call raised.
C28_Witness ==
    /\ cfg = Config(DefaultMaxItems, {1}, "at_access", "preserve")
    /\ \E h \in Handles : Flushed(h)
    /\ \E h \in Handles : hs[h].cons = "strict" /\ hs[h].ready
    /\ \E t \in Threads : th[t].pc = "idle" /\ th[t].err

\* C30 (Fan-out correctness): every value a flush has given to a handle is a
\* copy of the root that handle was deferred with, and handles deferred with
\* different roots never hold the same value.
C30_FanOutCorrect ==
    \A h \in Handles :
        (hs[h].cons = "at_access" /\ hs[h].value # None) =>
            /\ IsCopy(hs[h].value)
            /\ Src(hs[h].value) = hs[h].root
            /\ \A g \in Handles :
                  (hs[g].value # None /\ hs[g].root # hs[h].root) => hs[g].value # hs[h].value

\* One flush has resolved three entries for the roots A, B, A, the first
\* with preserve and the others with duplicate.
C30_Witness ==
    /\ Len(hs) = 3
    /\ \A h \in Handles : Flushed(h) /\ hs[h].batch = hs[1].batch
    /\ hs[1].root = hs[3].root /\ hs[2].root # hs[1].root
    /\ hs[1].alias = "preserve" /\ hs[2].alias = "duplicate" /\ hs[3].alias = "duplicate"
    /\ Src(hs[2].value) = hs[2].root

\* C29 (Duplicates copied individually): a flush invokes copy.deepcopy once
\* for each duplicate entry of the queue, and once more for the preserve
\* entries if there are any.
C29_DuplicatesCopiedAlone ==
    [][ \A t \in Threads :
          FlushBegins(t) =>
              NCalls' - NCalls =
                  Cardinality({k \in 1..Len(queue') : queue'[k].alias = "duplicate"})
                  + (IF \E k \in 1..Len(queue') : queue'[k].alias = "preserve" THEN 1 ELSE 0)
      ]_vars

\* C26 (Proxy inspection): __repr__ on a proxy whose handle is pending answers
\* the unresolved marker and returns at once: it starts no flush and makes no
\* copy, and the queue, the lock and every handle are as before.
C26_ReprDoesNotResolve ==
    [][ \A t \in Threads, h \in Handles :
          (~hs[h].ready /\ th'[t] # th[t] /\ Repr(t, h)) =>
              /\ ~ProxyRepr(h).resolved
              /\ th'[t].pc = "idle" /\ ~th'[t].err
              /\ queue' = queue
              /\ hs' = hs
              /\ copies' = copies
              /\ lock' = lock
      ]_vars

\* A proxy's handle waits in the queue with another entry, no call is
\* running and the lock is free: __repr__ leaves this state as it is.
C26_Witness ==
    /\ Len(queue) = 2
    /\ \A k \in 1..2 : hs[queue[k].h].returned /\ ~hs[queue[k].h].ready
    /\ ~ProxyRepr(queue[1].h).resolved
    /\ \A t \in Threads : th[t].pc = "idle" /\ ~th[t].err
    /\ lock.owner = 0

\* C27 (Proxy delegation): a proxy operation first calls get on the proxy's
\* handle: for a ready handle it returns at once and the value is a copy of
\* the handle's root, for a pending one it goes on to get's flush; when the
\* operation acts on the value after the flush, the handle is ready and holds
\* a copy of its root, and the operation changes no handle.  An item
\* assignment (of the item the copy shows after it) stores into the copy the
\* handle holds and into nothing else; no other operation changes a copy, and
\* none changes a root.
C27_ProxyDelegation ==
    [][ /\ \A t \in Threads :
          /\ \A h \in Handles :
                /\ (th'[t] # th[t] /\ ProxyResolve(t, h)) =>
                      IF hs[h].ready
                      THEN /\ th'[t].pc = "idle" /\ ~th'[t].err
                           /\ IsCopy(hs[h].value) /\ Src(hs[h].value) = hs[h].root
                           /\ hs' = hs /\ copies' = copies /\ queue' = queue
                      ELSE /\ th'[t].pc = "get_flush" /\ th'[t].h = h
                /\ LET v == IF hs[h].ready /\ IsCopy(hs[h].value) /\ Len(copies') = Len(copies)
                            THEN copies'[CopyIdx(hs[h].value)].snap
                            ELSE 0
                   IN ((th'[t] # th[t] \/ copies' # copies) /\ ProxySetItem(t, h, v)) =>
                          IF hs[h].ready
                          THEN /\ th'[t].pc = "idle" /\ ~th'[t].err
                               /\ IsCopy(hs[h].value) /\ Src(hs[h].value) = hs[h].root
                               /\ hs' = hs /\ queue' = queue
                               /\ v \in Contents
                               /\ \A k \in 1..Len(copies) :
                                     k # CopyIdx(hs[h].value) => copies'[k] = copies[k]
                          ELSE /\ th'[t].pc = "get_flush" /\ th'[t].h = h
                               /\ copies' = copies
          /\ (th[t].pc = "get_read" /\ th'[t].pc = "idle") =>
                 /\ hs[th[t].h].ready
                 /\ IsCopy(hs[th[t].h].value)
                 /\ Src(hs[th[t].h].value) = hs[th[t].h].root
                 /\ hs' = hs
                 /\ ~th'[t].err
                 /\ \A k \in 1..Len(copies) :
                       copies'[k] # copies[k] =>
                           /\ th[t].op = "setitem"
                           /\ k = CopyIdx(hs[th[t].h].value)
                           /\ copies'[k].src = copies[k].src /\ copies'[k].call = copies[k].call
        /\ \A k \in 1..Len(copies) :
              copies'[k] # copies[k] =>
                  \E h \in Handles : hs[h].ready /\ hs[h].value = CopyId(k)
        /\ content' = content
      ]_vars

\* Two threads, one in an item assignment and one in another operation of a
\* proxy of the same handle, are about to act on the value; the flush of the
\* first resolved the handle.  An item assignment through a proxy of another
\* handle has changed the copy that handle holds.
C27_Witness ==
    \E t \in Threads, u \in Threads :
        /\ t # u
        /\ th[t].pc = "get_read" /\ th[u].pc = "get_read"
        /\ th[t].op = "setitem" /\ th[u].op = "get"
        /\ th[t].h = th[u].h
        /\ th[t].calls = 1 /\ th[u].calls = 0
        /\ hs[th[t].h].ready
        /\ \E g \in Handles :
              /\ g # th[t].h /\ hs[g].ready
              /\ Snap(hs[g].value) # hs[g].dsnap
              /\ content[hs[g].root] = hs[g].dsnap

\* The positions of the queue q that hold preserve entries.
PreservePos(q) == {k \in 1..Len(q) : q[k].alias = "preserve"}

\* C31 (Identity-keyed deduplication): in the inputs list of a flush that
\* has preserve entries, the slot of every preserve entry holds that entry's
\* root, entries of one root have one slot and entries of different roots,
\* equal in content or not, have different slots and get different outputs;
\* the slots follow the order in which the roots first occur in the queue.
C31_IdentityDedup ==
    [][ \A t \in Threads :
          (FlushBegins(t) /\ ~AllDuplicate(queue')) =>
              LET q == queue'
                  b == BuildInputs(q, Len(q))
                  idx == b.index_for_queue_pos
              IN /\ FlushInputs(q) = b.inputs
                 /\ \A k \in PreservePos(q) :
                       /\ b.inputs[idx[k] + 1] = q[k].obj
                       /\ \A j \in PreservePos(q) :
                             /\ q[j].obj = q[k].obj => idx[j] = idx[k]
                             /\ q[j].obj # q[k].obj =>
                                   /\ idx[j] # idx[k]
                                   /\ th'[t].outs[j] # th'[t].outs[k]
                             /\ (j < k /\ \A i \in PreservePos(q) : i < k => q[i].obj # q[k].obj)
                                   => idx[j] < idx[k]
                 /\ Cardinality({idx[k] : k \in PreservePos(q)})
                       = Cardinality({q[k].obj : k \in PreservePos(q)})
      ]_vars

\* A flush of the preserve entries A, B, A, with A and B equal in content,
\* has made its copy: the two entries of A share an output, B has another.
C31_Witness ==
    \E t \in Threads :
        /\ th[t].pc = "fan_value" /\ th[t].i = 1
        /\ Len(queue) = 3
        /\ \A k \in 1..3 : queue[k].alias = "preserve"
        /\ queue[1].obj = queue[3].obj /\ queue[2].obj # queue[1].obj
        /\ content[queue[1].obj] = content[queue[2].obj]
        /\ th[t].outs[1] = th[t].outs[3] /\ th[t].outs[2] # th[t].outs[1]

\* C32 (No entry lost or resolved twice): whenever the lock is free, every
\* handle a defer that is not strict has returned is either ready and out of
\* the queue or pending with exactly one queue entry; an entry leaves the
\* queue only in a step that leaves its handle ready, entries are added at
\* the end only, and nothing is added while a flush is running.
C32_NoEntryLost ==
    [][ /\ lock'.owner = 0 =>
              \A h \in 1..Len(hs') :
                  (hs'[h].cons = "at_access" /\ hs'[h].returned) =>
                      LET n == Cardinality({k \in 1..Len(queue') : queue'[k].h = h})
                      IN IF hs'[h].ready THEN n = 0 ELSE n = 1
        /\ \A k \in 1..Len(queue) :
              \/ k <= Len(queue') /\ queue'[k] = queue[k]
              \/ queue' = <<>> /\ hs'[queue[k].h].ready
        /\ (\E t \in Threads : FlushRunning(t)) => Len(queue') <= Len(queue)
      ]_vars

\* One handle was resolved by a flush, a flush of the queue that held the
\* next one raised, and that handle still has its entry.
C32_Witness ==
    \E h \in Handles, g \in Handles :
        /\ Flushed(h) /\ hs[h].returned /\ ~InQueue(h)
        /\ hs[g].cons = "at_access" /\ hs[g].returned /\ ~hs[g].ready /\ InQueue(g)
        /\ HasBad(queue)
        /\ \E t \in Threads : th[t].pc = "idle" /\ th[t].err
        /\ lock.owner = 0

\* C33 (Lock-free fast path): in every state, also in the middle of a strict
\* defer or of a fan-out, a handle whose ready flag is set holds its value, a
\* copy of its root, so the fast path of get never reads the absent value;
\* a flush that is about to set a ready flag has written the value.
C33_ValueBeforeReady ==
    /\ \A h \in Handles :
          hs[h].ready => (hs[h].value # None /\ IsCopy(hs[h].value) /\ Src(hs[h].value) = hs[h].root)
    /\ \A t \in Threads :
          /\ th[t].pc = "fan_ready" => hs[queue[th[t].i].h].value = th[t].outs[th[t].i]
          /\ th[t].pc = "strict_ready" => IsCopy(hs[th[t].h].value)

\* A flush has made the first of its two handles ready and written the value
\* of the second, whose flag is not set yet, while another thread is idle
\* and can call get on either.
C33_Witness ==
    \E t \in Threads, u \in Threads :
        /\ t # u
        /\ th[t].pc = "fan_ready" /\ th[t].i = 2
        /\ hs[queue[1].h].ready /\ hs[queue[1].h].returned
        /\ ~hs[queue[2].h].ready /\ hs[queue[2].h].value # None
        /\ th[u].pc = "idle"

\* C34 (Concurrent gets agree): no flush copies for a handle that is already
\* resolved, so each entry is copied by one flush; a get whose flush finds
\* the queue empty makes no copy, changes no handle and goes on to read; and
\* a get that returns leaves the value as it is for every other thread that
\* is about to read the same handle.
C34_ConcurrentGetsAgree ==
    [][ \A t \in Threads :
          /\ FlushBegins(t) =>
                 \A k \in 1..Len(queue') :
                     ~hs'[queue'[k].h].ready /\ hs'[queue'[k].h].value = None
          /\ (th[t].pc = "get_locked" /\ th'[t] # th[t] /\ queue = <<>>) =>
                 /\ th'[t].pc = "get_read"
                 /\ copies' = copies
                 /\ hs' = hs
          /\ (th[t].pc = "get_read" /\ th'[t].pc = "idle") =>
                 /\ hs[th[t].h].ready
                 /\ \A u \in Threads :
                       (th[u].pc = "get_read" /\ hs[th[u].h].batch = hs[th[t].h].batch) =>
                           hs'[th[u].h].value = hs[th[u].h].value
      ]_vars

\* Two threads called get on the two pending handles of one batch: the
\* flush of one resolved both, the other found the queue empty, and both
\* are about to read.
C34_Witness ==
    \E t \in Threads, u \in Threads :
        /\ t # u
        /\ th[t].pc = "get_read" /\ th[u].pc = "get_read"
        /\ th[t].h # th[u].h
        /\ SameFlush(th[t].h, th[u].h)
        /\ th[t].calls = 1 /\ th[u].calls = 0
        /\ queue = <<>>

\* C35 (Queue length bound): for max_items >= 1, whenever the lock is free
\* and no entry of a failed copy is left in the queue, the queue holds fewer
\* than max_items entries, however the defers of the threads interleave;
\* with max_items = 1 it is then empty and every handle a defer that is not
\* strict has returned is ready.
C35_QueueLengthBound ==
    (lock.owner = 0 /\ cfg.max_items >= 1 /\ ~HasBad(queue)) =>
        /\ Len(queue) < cfg.max_items
        /\ cfg.max_items = 1 =>
              /\ queue = <<>>
              /\ \A h \in Handles : (hs[h].cons = "at_access" /\ hs[h].returned) => hs[h].ready

\* max_items = 2: the auto-flush of a defer resolved two handles, the defer
\* of one thread has left one entry in the queue and is about to return,
\* and the lock is free while another thread's flush stands at its
\* with-statement.
C35_Witness ==
    \E t \in Threads, u \in Threads :
        /\ t # u
        /\ cfg.max_items = 2 /\ cfg.max_bytes = {}
        /\ \E h1 \in Handles, h2 \in Handles : h1 # h2 /\ SameFlush(h1, h2)
        /\ Len(queue) = 1 /\ ~hs[queue[1].h].ready
        /\ th[t].pc = "defer_return" /\ th[t].h = queue[1].h
        /\ th[u].pc = "flush_lock"
        /\ ~HasBad(queue)
        /\ lock.owner = 0

\* C36 (No recursive acquisition): the lock's hold count never exceeds 1; it
\* is held exactly by the thread that is running a flush, whether the flush
\* was started by defer, get or flush.
C36_NoRecursiveLock ==
    /\ lock.count <= 1
    /\ lock.owner = 0 <=> lock.count = 0
    /\ \A t \in Threads :
          /\ FlushRunning(t) => lock.owner = t
          /\ lock.owner = t <=> (FlushRunning(t) \/ th[t].pc \in {"defer_locked", "flush_locked", "get_locked"})

\* A defer runs its auto-flush under the lock, held once, while another
\* thread's get waits for the lock.
C36_Witness ==
    \E t \in Threads, u \in Threads :
        /\ th[t].op = "defer" /\ FlushRunning(t)
        /\ lock = [owner |-> t, count |-> 1]
        /\ th[u].pc = "get_flush"

\* C37 (Aliasing is scoped to one batch), as the specification states it:
\* two handles deferred with alias=preserve for the same object, whatever
\* the object, and resolved by different flushes never hold the same object.
C37_AliasingPerBatch ==
    \A h1 \in Handles, h2 \in Handles :
        ( /\ Flushed(h1) /\ Flushed(h2)
          /\ hs[h1].alias = "preserve" /\ hs[h2].alias = "preserve"
          /\ hs[h1].root = hs[h2].root
          /\ hs[h1].batch # hs[h2].batch )
        => hs[h1].value # hs[h2].value

\* C37 (Aliasing is scoped to one batch), amended: the value of a ready
\* handle is an object allocated by the copy.deepcopy invocation that
\* resolved it, or it is the handle's own object, which is immutable; two
\* ready handles resolved by different invocations hold the same object only
\* if it is the immutable object both were deferred with.
C37_SharedOnlyIfImmutable ==
    \A h1 \in Handles, h2 \in Handles :
        (hs[h1].ready /\ hs[h2].ready) =>
            /\ IF IsCopy(hs[h1].value)
               THEN CopyRec(hs[h1].value).call = hs[h1].batch /\ hs[h1].root # Atom
               ELSE hs[h1].value = Atom /\ hs[h1].root = Atom
            /\ (hs[h1].batch # hs[h2].batch /\ hs[h1].value = hs[h2].value) =>
                  (hs[h1].value = Atom /\ hs[h1].root = Atom /\ hs[h2].root = Atom)

\* Two preserve handles of one mutable root, the first resolved by one
\* flush and the second by a later one, hold different copies, and that
\* later flush handed an immutable object back to a third handle.
C37_Witness ==
    \E h1 \in Handles, h2 \in Handles, h3 \in Handles :
        /\ h1 < h2
        /\ Flushed(h1) /\ Flushed(h2) /\ Flushed(h3)
        /\ hs[h1].alias = "preserve" /\ hs[h2].alias = "preserve"
        /\ hs[h1].root = hs[h2].root /\ hs[h1].root \in Copyable
        /\ hs[h1].batch < hs[h2].batch
        /\ hs[h1].value # hs[h2].value
        /\ hs[h3].root = Atom /\ hs[h3].value = Atom
        /\ hs[h3].batch = hs[h2].batch

\* C38 (Policy resolution): a defer takes the strict path exactly when its
\* consistency argument is strict, or is absent on a batcher whose default is
\* strict, and then adds no entry; otherwise it appends one entry, whose
\* alias is the alias argument if given and the batcher's default if not;
\* the alias of an entry never changes while it is queued.
C38_PolicyResolution ==
    [][ /\ \A t \in Threads, obj \in Roots, c \in ConsistencyArgs, a \in AliasArgs :
              /\ DeferStrict(t, obj, c, a) =>
                     /\ c = "strict" \/ (c = "None" /\ cfg.consistency = "strict")
                     /\ queue' = queue
              /\ DeferEnter(t, obj, c, a) =>
                     /\ c = "at_access" \/ (c = "None" /\ cfg.consistency = "at_access")
                     /\ hs'[th'[t].h].root = obj
                     /\ hs'[th'[t].h].alias = (IF a = "None" THEN cfg.alias ELSE a)
                     /\ queue' = queue
        /\ \A t \in Threads :
              QueuedDefer(t) =>
                  LET e == IF Len(queue') > Len(queue) THEN queue'[Len(queue')]
                                                      ELSE [h |-> 0, obj |-> 0, alias |-> "none"]
                  IN /\ Len(queue') = Len(queue) + 1
                     /\ e.h = th[t].h
                     /\ e.obj = hs[e.h].root
                     /\ e.alias = hs[e.h].alias
                     /\ hs'[e.h].alias = e.alias
        /\ \A h \in Handles : hs'[h].alias = hs[h].alias /\ hs'[h].root = hs[h].root
        /\ \A k \in 1..Len(queue) : k <= Len(queue') => queue'[k].alias = queue[k].alias
      ]_vars

\* A batcher built with alias = duplicate holds a duplicate entry and a
\* preserve entry, which only an override can have made, and a strict
\* handle made on a per-call override.
C38_Witness ==
    /\ cfg = Config(DefaultMaxItems, {}, "at_access", "duplicate")
    /\ Len(queue) = 2
    /\ queue[1].alias = "duplicate" /\ queue[2].alias = "preserve"
    /\ \E h \in Handles : hs[h].cons = "strict" /\ hs[h].ready

\* C39 (max_bytes is advisory): the pending-byte counter is always 0, and a
\* defer that is not strict flushes exactly when its entry brings the queue
\* to max_items entries, whatever max_bytes is.
C39_MaxBytesAdvisory ==
    [][ /\ pending_bytes = 0 /\ pending_bytes' = 0
        /\ \A t \in Threads :
               QueuedDefer(t) => (th'[t].pc # "defer_return" <=> Len(queue') >= cfg.max_items)
      ]_vars

====
